---- MODULE Spec2Model ----
(***************************************************************************)
(* Model of explainer.py: the two predictor adapters that LIME calls back  *)
(* (fasttext_predictor, flair_predictor), main(), and the command-line     *)
(* loop that runs main() for every requested method and sample.            *)
(*                                                                         *)
(* Scores are integers (hundredths).  A native label is the integer of its *)
(* last character: the labels of one classifier share their prefix and end *)
(* in one digit, so numpy's string comparison orders them by that digit.   *)
(***************************************************************************)
EXTENDS Integers, Sequences, FiniteSets, TLC

VARIABLES
    native,      \* adapter call: what the classifier yields for texts[n]
    numpy,       \* adapter call: how the numpy build treats ragged rows
    ft,          \* adapter call: outcome of fasttext_predictor
    fl,          \* adapter call: outcome of flair_predictor
    argv,        \* command line: the values given to --method
    pc,          \* command line: position in the __main__ block
    m,           \* command line: index into argv of the current method
    i,           \* command line: enumerate() index of the current sample
    classifier,  \* command line: the classifier main() holds (0: none)
    exp,         \* command line: the explanation main() returned
    log,         \* command line: the calls made so far, in order
    status       \* command line: the process exit status (-1: running)

vars == <<native, numpy, ft, fl, argv, pc, m, i, classifier, exp, log, status>>

adapterVars == <<native, numpy, ft, fl>>

mainVars == <<argv, pc, m, i, classifier, exp, log, status>>

\* ------------------------------------------------------------ bounds

\* Longest list of texts one callback receives.
MaxTexts == 2

\* Longest list of values given to --method.
MaxMethods == 3

\* ------------------------------------------------- program constants

\* k of classifier.predict(texts, 5); class_names has as many entries.
NumClasses == 5

\* len(samples)
NumSamples == 2

Classes == 1..NumClasses

METHODS == [fasttext |-> "models/fasttext/sst.bin",
            flair |-> "models/flair/best-model-elmo.pt"]

\* ---------------------------------------------------- numpy helpers

Min(a, b) == IF a <= b THEN a ELSE b

\* Index of the smallest label among idxs (the lower index on a tie).
ArgMin(label, idxs) ==
    CHOOSE a \in idxs : \A b \in idxs :
        label[a] < label[b] \/ (label[a] = label[b] /\ a <= b)

RECURSIVE ArgsortFrom(_, _)
ArgsortFrom(label, idxs) ==
    IF idxs = {} THEN <<>>
    ELSE LET a == ArgMin(label, idxs)
         IN <<a>> \o ArgsortFrom(label, idxs \ {a})

\* A mutant: the indices in their native order (no sorting).
argsort_unsorted(label) == [k \in 1..Len(label) |-> k]

\* A mutant: the inverse permutation (the rank of each label).
argsort_ranks(label) ==
    [k \in 1..Len(label) |->
        Cardinality({j \in 1..Len(label) : label[j] < label[k]}) + 1]

\* np.argsort(np.array(label)): the indices that sort label ascending.
argsort(label) == ArgsortFrom(label, 1..Len(label))

\* prob[order] on an ndarray: the elements of prob at the indices of order.
Index(prob, order) == [k \in 1..Len(order) |-> prob[order[k]]]

\* Whether the rows do not all have one length.
Ragged(rows) == \E a, b \in 1..Len(rows) : Len(rows[a]) # Len(rows[b])

Returned(value) == [status |-> "ok", value |-> value, error |-> ""]

Raised(error) == [status |-> "raise", value |-> <<>>, error |-> error]

Pending == [status |-> "pending", value |-> <<>>, error |-> ""]

\* np.array(rows): a 2-D array of equal rows; of ragged rows the strict
\* build raises ValueError and the legacy build makes an array of objects.
np_array(rows, build) ==
    IF Ragged(rows) /\ build = "strict"
    THEN Raised("ValueError")
    ELSE Returned(rows)

\* ------------------------------------------------------- predictors

\* classifier.predict(texts, k): per text the first k native labels and
\* their scores, as two parallel lists.
predict(out, k) ==
    [labels |-> [n \in 1..Len(out) |->
                    SubSeq(out[n].labels, 1, Min(k, Len(out[n].labels)))],
     probs |-> [n \in 1..Len(out) |->
                    SubSeq(out[n].scores, 1, Min(k, Len(out[n].scores)))]]

\* A mutant: the rows are collected in front of the earlier ones.
RECURSIVE SortRowsReversed(_, _, _, _)
SortRowsReversed(labels, probs, n, result) ==
    IF n > Min(Len(labels), Len(probs)) THEN result
    ELSE SortRowsReversed(labels, probs, n + 1,
            <<Index(probs[n], argsort(labels[n]))>> \o result)

\* for label, prob, text in zip(labels, probs, texts):
\*     order = np.argsort(np.array(label)); result.append(prob[order])
RECURSIVE SortRows(_, _, _, _)
SortRows(labels, probs, n, result) ==
    IF n > Min(Len(labels), Len(probs)) THEN result
    ELSE SortRows(labels, probs, n + 1,
            Append(result, Index(probs[n], argsort(labels[n]))))

fasttext_predictor(out, build) ==
    LET p == predict(out, NumClasses)
        result == SortRows(p.labels, p.probs, 1, <<>>)
    IN np_array(result, build)

\* for text in texts: classifier.predict(doc, multi_class_prob=True);
\*     labels.append([x.value ...]); probs.append([x.score ...])
RECURSIVE Collect(_, _, _)
Collect(out, n, acc) ==
    IF n > Len(out) THEN acc
    ELSE Collect(out, n + 1,
            [labels |-> Append(acc.labels, out[n].labels),
             probs |-> Append(acc.probs, out[n].scores)])

\* Over an array of objects (ragged rows on the legacy build) each prob of
\* the second loop is a Python list, and prob[order] raises TypeError as
\* soon as order has another length than 1; of ragged rows one has.
flair_predictor(out, build) ==
    LET c == Collect(out, 1, [labels |-> <<>>, probs |-> <<>>])
        arr == np_array(c.probs, build)
    IN IF arr.status = "raise" THEN arr
       ELSE IF Ragged(c.probs) THEN Raised("TypeError")
       ELSE np_array(SortRows(c.labels, arr.value, 1, <<>>), build)

\* ------------------------------------------- inputs of adapter calls

\* Every order of every set of distinct class labels.
RECURSIVE OrdersOf(_)
OrdersOf(S) ==
    IF S = {} THEN {<<>>}
    ELSE UNION {{<<c>> \o o : o \in OrdersOf(S \ {c})} : c \in S}

NativeOrders == UNION {OrdersOf(S) : S \in SUBSET Classes}

\* The orders a callback of several texts draws from: ascending, the
\* order 3 1 5 2 4, descending, and one truncated to three labels.
SampleOrders ==
    {<<1, 2, 3, 4, 5>>, <<3, 1, 5, 2, 4>>, <<5, 4, 3, 2, 1>>, <<2, 5, 1>>}

\* Score of each class (hundredths).
Profiles == {<<50, 20, 10, 15, 5>>, <<5, 10, 20, 25, 40>>, <<20, 20, 20, 20, 20>>}

\* The native prediction of a text: the labels in the order given, each
\* paired with the score of its class.
Raw(order, profile) ==
    [labels |-> order, scores |-> [k \in 1..Len(order) |-> profile[order[k]]]]

AllRaw == {Raw(o, p) : o \in NativeOrders, p \in Profiles}

SampleProfiles == {<<50, 20, 10, 15, 5>>, <<5, 10, 20, 25, 40>>}

SampleRaw == {Raw(o, p) : o \in SampleOrders, p \in SampleProfiles}

RECURSIVE SeqsOf(_, _)
SeqsOf(S, n) ==
    IF n = 0 THEN {<<>>}
    ELSE {Append(s, x) : s \in SeqsOf(S, n - 1), x \in S}

\* One text with any native prediction, or several texts with sampled ones.
CallInputs ==
    {<<r>> : r \in AllRaw} \cup UNION {SeqsOf(SampleRaw, n) : n \in 2..MaxTexts}

Builds == {"legacy", "strict"}

\* ------------------------------------------- the adapter under test

MainIdle ==
    /\ argv = <<>>
    /\ pc = "idle"
    /\ m = 0
    /\ i = 0
    /\ classifier = 0
    /\ exp = <<>>
    /\ log = <<>>
    /\ status = -1

InitAdapter ==
    /\ native \in CallInputs
    /\ numpy \in Builds
    /\ ft = Pending
    /\ fl = Pending
    /\ MainIdle

CallFasttext ==
    /\ pc = "idle"
    /\ ft.status = "pending"
    /\ ft' = fasttext_predictor(native, numpy)
    /\ UNCHANGED <<native, numpy, fl>>
    /\ UNCHANGED mainVars

CallFlair ==
    /\ pc = "idle"
    /\ fl.status = "pending"
    /\ fl' = flair_predictor(native, numpy)
    /\ UNCHANGED <<native, numpy, ft>>
    /\ UNCHANGED mainVars

NextAdapter == CallFasttext \/ CallFlair

SpecAdapter == InitAdapter /\ [][NextAdapter]_vars

\* ------------------------------------------------- the command line

MethodNames == {"fasttext", "flair", "doesnotexist"}

\* method_list = [method for method in METHODS.keys()]
method_list == <<"fasttext", "flair">>

\* The native predictions of the perturbed texts of one callback: every
\* class in the classifier's own order, or only the top three.
CallbackRaw ==
    {Raw(<<3, 1, 5, 2, 4>>, <<50, 20, 10, 15, 5>>), Raw(<<2, 5, 1>>, <<50, 20, 10, 15, 5>>)}

CallbackInputs == UNION {SeqsOf(CallbackRaw, n) : n \in 1..MaxTexts}

\* A mutant: the name counts samples from one, as the printed message does.
FileNameOneBased(index, method) == <<index + 1, "-explanation-", method, ".html">>

\* "{}-explanation-{}.html".format(i, method)
FileName(index, method) == <<index, "-explanation-", method, ".html">>

Event(op, ok, name) ==
    [op |-> op, pos |-> m, text |-> i, ok |-> ok, cls |-> classifier, name |-> name]

\* predictor of main(): the adapter the method selects.
Predictor(method, out, build) ==
    IF method = "fasttext" THEN fasttext_predictor(out, build)
    ELSE flair_predictor(out, build)

Init ==
    /\ argv \in UNION {SeqsOf(MethodNames, n) : n \in 1..MaxMethods}
    /\ numpy \in Builds
    /\ pc = "for_method"
    /\ m = 0
    /\ i = 0
    /\ classifier = 0
    /\ exp = <<>>
    /\ log = <<>>
    /\ status = -1
    /\ native = <<>>
    /\ ft = Pending
    /\ fl = Pending

\* for method in args.method: the next method, or the end of the script.
ForMethod ==
    /\ pc = "for_method"
    /\ IF m < Len(argv)
       THEN /\ m' = m + 1
            /\ i' = 0
            /\ pc' = "check"
            /\ UNCHANGED status
       ELSE /\ pc' = "done"
            /\ status' = 0
            /\ UNCHANGED <<m, i>>
    /\ UNCHANGED <<argv, classifier, exp, log>>
    /\ UNCHANGED adapterVars

\* if method not in METHODS.keys(): parser.error(...), which prints the
\* valid methods and exits with status 2; else path_to_model is looked up.
Check ==
    /\ pc = "check"
    /\ IF argv[m] \notin DOMAIN METHODS
       THEN /\ pc' = "exit"
            /\ status' = 2
            /\ log' = Append(log, Event("error", FALSE, method_list))
       ELSE /\ pc' = "for_text"
            /\ UNCHANGED <<status, log>>
    /\ UNCHANGED <<argv, m, i, classifier, exp>>
    /\ UNCHANGED adapterVars

\* for i, text in enumerate(samples): the next sample, or the next method.
ForText ==
    /\ pc = "for_text"
    /\ pc' = IF i < NumSamples THEN "load" ELSE "for_method"
    /\ UNCHANGED <<argv, m, i, classifier, exp, log, status>>
    /\ UNCHANGED adapterVars

\* The number of load_* calls made so far.
Loads == Cardinality({k \in 1..Len(log) : log[k].op = "load"})

\* main(): load_fasttext(path_to_model) or load_flair(path_to_model) makes
\* a new classifier, or raises; any other method raises.
Load ==
    /\ pc = "load"
    /\ \E ok \in (IF argv[m] \in {"fasttext", "flair"} THEN BOOLEAN ELSE {FALSE}) :
        /\ classifier' = IF ok THEN Loads + 1 ELSE 0
        /\ log' = Append(log, [Event("load", ok, <<METHODS[argv[m]]>>)
                                  EXCEPT !.cls = classifier'])
        /\ pc' = IF ok THEN "explain" ELSE "except"
    /\ UNCHANGED <<argv, m, i, exp, status>>
    /\ UNCHANGED adapterVars

\* main(): explainer.explain_instance(text, classifier_fn=...) calls the
\* predictor on lists of perturbed texts; it raises what the predictor
\* raises, and may raise by itself; main() returns what it returns.
Explain ==
    /\ pc = "explain"
    /\ \E out \in CallbackInputs, lime \in BOOLEAN :
        LET ok == lime /\ Predictor(argv[m], out, numpy).status = "ok"
        IN /\ log' = Append(log, Event("explain", ok, <<>>))
           /\ exp' = IF ok THEN <<m, i>> ELSE <<>>
           /\ pc' = IF ok THEN "save" ELSE "except"
    /\ classifier' = 0
    /\ UNCHANGED <<argv, m, i, status>>
    /\ UNCHANGED adapterVars

\* exp.save_to_file(output_filename): writes the file, or raises.
Save ==
    /\ pc = "save"
    /\ \E ok \in BOOLEAN :
        /\ log' = Append(log, [Event("save", ok, FileName(i, argv[m]))
                                  EXCEPT !.cls = exp])
        /\ pc' = IF ok THEN "print" ELSE "except"
    /\ exp' = <<>>
    /\ UNCHANGED <<argv, m, i, classifier, status>>
    /\ UNCHANGED adapterVars

\* print("Output explainer data {} to HTML".format(i+1)), and the next sample.
PrintOutput ==
    /\ pc = "print"
    /\ log' = Append(log, Event("output", TRUE, <<i + 1>>))
    /\ i' = i + 1
    /\ pc' = "for_text"
    /\ UNCHANGED <<argv, m, classifier, exp, status>>
    /\ UNCHANGED adapterVars

\* except Exception as e: print(e), and the next method.
Except ==
    /\ pc = "except"
    /\ log' = Append(log, Event("message", TRUE, <<>>))
    /\ pc' = "for_method"
    /\ UNCHANGED <<argv, m, i, classifier, exp, status>>
    /\ UNCHANGED adapterVars

Next ==
    \/ ForMethod
    \/ Check
    \/ ForText
    \/ Load
    \/ Explain
    \/ Save
    \/ PrintOutput
    \/ Except

Spec == Init /\ [][Next]_vars

\* ---------------------------------------------- claims on the adapter

Outcomes == {ft, fl}

\* The score a native prediction pairs with its k-th smallest label.
ScoreOfRank(raw, k) ==
    LET j == CHOOSE j \in 1..Len(raw.labels) :
                Cardinality({x \in 1..Len(raw.labels) :
                                raw.labels[x] < raw.labels[j]}) = k - 1
    IN raw.scores[j]

FullLabels(raw) == {raw.labels[k] : k \in 1..Len(raw.labels)} = Classes

\* C2: when the native labels of a text are the distinct class identities,
\* both predictors return for it the vector whose position c holds the
\* score natively paired with class c, whatever the other texts' orders;
\* a call whose texts all carry every class returns.
C2_CanonicalOrder ==
    \A o \in Outcomes :
        /\ (o.status # "pending" /\ \A n \in 1..Len(native) : FullLabels(native[n]))
                => o.status = "ok"
        /\ o.status = "ok" =>
              \A n \in 1..Len(native) :
                  FullLabels(native[n]) =>
                      /\ Len(o.value[n]) = NumClasses
                      /\ \A c \in Classes :
                            \E k \in 1..NumClasses :
                                /\ native[n].labels[k] = c
                                /\ o.value[n][c] = native[n].scores[k]

\* C2 happens: labels 3 1 5 2 4 with scores .1 .5 .05 .2 .15 come back as
\* .5 .2 .1 .15 .05 beside a text whose ascending labels keep their scores.
C2_Witness ==
    /\ Len(native) = 2
    /\ native[1] = [labels |-> <<3, 1, 5, 2, 4>>, scores |-> <<10, 50, 5, 20, 15>>]
    /\ native[2] = [labels |-> <<1, 2, 3, 4, 5>>, scores |-> <<5, 10, 20, 25, 40>>]
    /\ ft = Returned(<<<<50, 20, 10, 15, 5>>, <<5, 10, 20, 25, 40>>>>)
    /\ fl = ft

\* C3: every vector a predictor returns has NumClasses entries, and a call
\* in which a text yields fewer native labels fails instead of returning.
C3_FullLengthOrError ==
    \A o \in Outcomes :
        o.status # "pending" =>
            IF \E n \in 1..Len(native) : Len(native[n].labels) < NumClasses
            THEN o.status = "raise"
            ELSE /\ o.status = "ok"
                 /\ \A n \in 1..Len(o.value) : Len(o.value[n]) = NumClasses

\* C6: a predictor that returns, returns one vector per text, and the
\* vector at position n rearranges the scores of the text at position n.
C6_OnePerTextInOrder ==
    \A o \in Outcomes :
        o.status = "ok" =>
            /\ Len(o.value) = Len(native)
            /\ \A n \in 1..Len(native) :
                  /\ Len(o.value[n]) = Len(native[n].labels)
                  /\ \A k \in 1..Len(o.value[n]) :
                        o.value[n][k] = ScoreOfRank(native[n], k)

\* C6 happens: two texts with different native predictions were adapted
\* by both predictors.
C6_Witness ==
    /\ Len(native) = 2
    /\ native[1].labels # native[2].labels
    /\ native[1].scores # native[2].scores
    /\ ft.status = "ok"
    /\ fl.status = "ok"
    /\ ft.value[1] # ft.value[2]

\* The native prediction with its (label, score) pairs re-shuffled by pi.
Shuffle(raw, pi) ==
    [labels |-> [k \in 1..Len(pi) |-> raw.labels[pi[k]]],
     scores |-> [k \in 1..Len(pi) |-> raw.scores[pi[k]]]]

ShuffleText(out, n, pi) == [out EXCEPT ![n] = Shuffle(out[n], pi)]

\* C7: re-shuffling the native (label, score) pairs of any text by any
\* permutation before adapting gives the outcome the predictor gave.
C7_ShuffleInvariant ==
    /\ ft.status # "pending" =>
          \A n \in 1..Len(native) :
              \A pi \in OrdersOf(1..Len(native[n].labels)) :
                  fasttext_predictor(ShuffleText(native, n, pi), numpy) = ft
    /\ fl.status # "pending" =>
          \A n \in 1..Len(native) :
              \A pi \in OrdersOf(1..Len(native[n].labels)) :
                  flair_predictor(ShuffleText(native, n, pi), numpy) = fl

\* C7 happens: both predictors returned for a text whose five labels are
\* not in ascending order and whose scores differ.
C7_Witness ==
    /\ ft.status = "ok"
    /\ fl.status = "ok"
    /\ native[1].labels = <<5, 4, 3, 2, 1>>
    /\ native[1].scores = <<40, 25, 20, 10, 5>>

\* C8: on the same native predictions the batch and the sequential
\* predictor both return, or both fail, and return the same vectors.
C8_StrategiesAgree ==
    (ft.status # "pending" /\ fl.status # "pending") =>
        /\ ft.status = fl.status
        /\ ft.value = fl.value

\* ------------------------------------------ claims on the command line

Finished == pc \in {"done", "exit"}

Events(op) == {k \in 1..Len(log) : log[k].op = op}

Registered(q) == argv[q] \in DOMAIN METHODS

\* The run began the method at place q of the list with its first sample.
Begun(q) == \E k \in Events("load") : log[k].pos = q /\ log[k].text = 0

\* C1: a run that ends on an unknown --method value has reported the
\* valid methods and has loaded, explained and written nothing.
C1_UnknownBeforeWork ==
    status = 2 =>
        /\ log[Len(log)].op = "error"
        /\ log[Len(log)].name = method_list
        /\ \A k \in 1..Len(log) : log[k].op \notin {"load", "explain", "save"}

\* C4: after the explanation of sample j of a method fails, no later
\* sample of that method is explained or persisted, the run goes on, and
\* a finished run has begun every later registered method of the list
\* with its first sample.
C4_ExplainFailureIsPerMethod ==
    \A k \in Events("explain") :
        ~log[k].ok =>
            /\ \A h \in Events("explain") \cup Events("save") :
                  log[h].pos = log[k].pos => log[h].text <= log[k].text
            /\ k = Len(log) => (pc = "except" /\ status = -1)
            /\ k < Len(log) => log[k + 1].op = "message"
            /\ Finished =>
                  \A q \in (log[k].pos + 1)..Len(argv) : Registered(q) => Begun(q)

\* C5: when loading the classifier of a method fails, nothing is explained
\* and nothing is written for that method, a message is printed, and a
\* finished run has begun every other registered method of the list.
C5_LoadFailureSkipsMethod ==
    \A k \in Events("load") :
        ~log[k].ok =>
            /\ \A h \in Events("explain") \cup Events("save") :
                  log[h].pos # log[k].pos
            /\ k < Len(log) => log[k + 1].op = "message"
            /\ Finished =>
                  \A q \in 1..Len(argv) :
                      (q # log[k].pos /\ Registered(q)) => Begun(q)

\* C9: each method of the list is loaded at most once, its load precedes
\* its first explanation, and every explanation of the method uses the
\* classifier that load made.
C9_LoadedOncePerMethod ==
    \A q \in 1..Len(argv) :
        /\ Cardinality({k \in Events("load") : log[k].pos = q}) <= 1
        /\ \A h \in Events("explain") :
              log[h].pos = q =>
                  \E k \in Events("load") :
                      /\ k < h
                      /\ log[k].pos = q
                      /\ log[k].ok
                      /\ log[k].cls = log[h].cls

====
